---- MODULE Spec2Model ----
(***************************************************************************)
(* State-machine model of the VRC6 Ezine Flask application: the users and  *)
(* articles tables, the upload folder, the browser sessions and the route  *)
(* handlers of app.py behind the guards of auth.py.                        *)
(***************************************************************************)
EXTENDS Integers, Sequences, FiniteSets, TLC

(* ------------------------------ bounds -------------------------------- *)

\* Largest users.id the model lets AUTOINCREMENT hand out.
MaxUsers == 2

\* Largest articles.id the model lets AUTOINCREMENT hand out.
MaxArticles == 2

\* Largest value of CURRENT_TIMESTAMP (whole seconds since start).
MaxClock == 1

\* Number of uuid4 file names the model lets the handlers draw.
MaxUploads == 2

\* Longest password handed to is_strong_password.
MaxPasswordLen == 21

\* Largest length asked of generate_random_password.
MaxGenerated == 4

\* Requests that may be between their file.save and their commit at once.
MaxInflight == 1

\* Browser sessions (signed cookies) talking to the application.
Sessions == {"s1", "s2"}

(* ----------------------------- constants ------------------------------ *)

\* SQL NULL of articles.image_path (a file name is <<uuid, extension>>), and
\* of a TIMESTAMP column.
NullImage == <<>>
NoTime == -1

\* Config.DEFAULT_ADMIN_USERNAME / DEFAULT_ADMIN_EMAIL / DEFAULT_ADMIN_PASSWORD
DEFAULT_ADMIN_USERNAME == "chief"
DEFAULT_ADMIN_EMAIL == "admin@x"
DEFAULT_ADMIN_PASSWORD == <<"V", "R", "C", "6", "i", "n", "2", "0", "2", "5", "!">>

\* Config.ALLOWED_EXTENSIONS
ALLOWED_EXTENSIONS == {"png", "jpg", "jpeg", "gif", "webp"}

(* --------------------------- credential policy ------------------------- *)

\* The character classes of the regular expressions of is_strong_password:
\* [A-Z], [a-z], \d (on ASCII text) and [!@#$%^&*(),.?":{}|<>].
UpperChars == {"A", "B", "C", "D", "E", "F", "G", "H", "I", "J", "K", "L", "M",
               "N", "O", "P", "Q", "R", "S", "T", "U", "V", "W", "X", "Y", "Z"}
LowerChars == {"a", "b", "c", "d", "e", "f", "g", "h", "i", "j", "k", "l", "m",
               "n", "o", "p", "q", "r", "s", "t", "u", "v", "w", "x", "y", "z"}
DigitChars == {"0", "1", "2", "3", "4", "5", "6", "7", "8", "9"}
SpecialChars == {"!", "@", "#", "$", "%", "^", "&", "*", "(", ")", ",", ".",
                 "?", "\"", ":", "{", "}", "|", "<", ">"}

HasChar(password, class) == \E i \in 1..Len(password) : password[i] \in class

\* is_strong_password with the upper length test off by one.
is_strong_password_short(password) ==
    IF Len(password) < 8 \/ Len(password) >= 20 THEN FALSE
    ELSE IF ~HasChar(password, UpperChars) THEN FALSE
    ELSE IF ~HasChar(password, LowerChars) THEN FALSE
    ELSE IF ~HasChar(password, DigitChars) THEN FALSE
    ELSE IF ~HasChar(password, SpecialChars) THEN FALSE
    ELSE TRUE

\* is_strong_password with every check dropped.
is_strong_password_unchecked(password) == TRUE

\* utils.is_strong_password: passwords are sequences of characters.
is_strong_password(password) ==
    IF Len(password) < 8 \/ Len(password) > 20 THEN FALSE
    ELSE IF ~HasChar(password, UpperChars) THEN FALSE
    ELSE IF ~HasChar(password, LowerChars) THEN FALSE
    ELSE IF ~HasChar(password, DigitChars) THEN FALSE
    ELSE IF ~HasChar(password, SpecialChars) THEN FALSE
    ELSE TRUE

\* utils.hash_password: the salted one-way hash; its output is a tagged value,
\* never a plain character sequence.  No route handler calls it.
hash_password(password, salt) == <<"pbkdf2:sha256", salt, password>>

\* utils.generate_random_password line 20: string.ascii_letters +
\* string.digits + "!@#$%^&*".
GeneratorAlphabet ==
    LowerChars \cup UpperChars \cup DigitChars \cup {"!", "@", "#", "$", "%", "^", "&", "*"}

\* utils.generate_random_password: the values it may return, `length`
\* independent draws of secrets.choice(alphabet).
generate_random_password(length) == [1..length -> GeneratorAlphabet]

\* Two values generate_random_password() may return: 12 characters of
\* ascii_letters + digits + "!@#$%^&*".  The first satisfies the strength
\* policy, the second does not (no upper case, no digit, no symbol).
StrongGenerated == <<"k", "T", "7", "#", "q", "L", "m", "W", "2", "x", "!", "Z">>
WeakGenerated == <<"a", "b", "c", "e", "i", "k", "m", "n", "q", "s", "t", "x">>
GeneratedPasswords == {StrongGenerated, WeakGenerated}

\* Passwords a person types: "Test@1234" and the too short "sec1!".
TestPassword == <<"T", "e", "s", "t", "@", "1", "2", "3", "4">>
ShortPassword == <<"s", "e", "c", "1", "!">>

(* ------------------------------- state -------------------------------- *)

VARIABLES
    users,          \* users table: id -> row
    articles,       \* articles table: id -> row
    nextUserId,     \* sqlite_sequence of users
    nextArticleId,  \* sqlite_sequence of articles
    files,          \* file names present in Config.UPLOAD_FOLDER
    nextUuid,       \* uuid4 values drawn so far
    session,        \* Flask session of each browser: a dict
    now,            \* CURRENT_TIMESTAMP
    plain,          \* per user id: the plaintext password last configured, issued or chosen
    mail,           \* what the latest request handed to send_welcome_email
    inflight,       \* requests that have saved their image and not yet committed
    resp            \* the latest request and its response

vars == <<users, articles, nextUserId, nextArticleId, files, nextUuid,
          session, now, plain, mail, inflight, resp>>

(* ------------------------------ helpers -------------------------------- *)

\* session.clear() leaves an empty dict.
EmptySession == << >>

\* 'user_id' in session
InSession(sess, key) == key \in DOMAIN sess

\* session.get('is_admin'): None (falsy) when the key is absent.
SessionGet(sess, key) == IF key \in DOMAIN sess THEN sess[key] ELSE FALSE

\* No message handed to the notifier.  A message's result is "sent"
\* (send_welcome_email returned True) or "failed" (it raised).
NoMail == [to |-> "", username |-> "", password |-> << >>, is_reset |-> FALSE,
           result |-> "none"]

\* A request and its response: the route, the browser, the outcome (flash
\* message and redirect), the id in the URL (or of the row written), the rows
\* handed to the template, whether the handler body opened a database
\* connection, and the form fields the request carried.
FormResponse(op, s, outcome, target, listing, db, form) ==
    [op |-> op, sess |-> s, outcome |-> outcome, target |-> target,
     listing |-> listing, db |-> db, form |-> form]

Response(op, s, outcome, target, listing, db) ==
    FormResponse(op, s, outcome, target, listing, db, << >>)

\* A request that touches neither table, nor the upload folder, nor the session.
ReadOnly ==
    /\ mail' = NoMail
    /\ UNCHANGED <<users, articles, nextUserId, nextArticleId, files, nextUuid,
                   session, now, plain, inflight>>

\* auth.login_required: the response that replaces the handler, or "pass".
login_required(sess) ==
    IF ~InSession(sess, "user_id") THEN "unauthenticated" ELSE "pass"

\* admin_required without the is_admin test.
admin_required_login_only(sess) ==
    IF ~InSession(sess, "user_id") THEN "unauthenticated" ELSE "pass"

\* auth.admin_required
admin_required(sess) ==
    IF ~InSession(sess, "user_id") THEN "unauthenticated"
    ELSE IF ~SessionGet(sess, "is_admin") THEN "forbidden"
    ELSE "pass"

\* Removing one row of a table.
DeleteRow(table, id) == [r \in DOMAIN table \ {id} |-> table[r]]

\* The sequences a SELECT ... ORDER BY a.created_at DESC may return for the
\* rows `ids`: every row once, created_at never increasing; rows with the
\* same created_at come in an order SQL leaves open.
OrderByCreatedDesc(ids) ==
    { q \in [1..Cardinality(ids) -> ids] :
        /\ \A i, j \in DOMAIN q : i # j => q[i] # q[j]
        /\ \A i, j \in DOMAIN q :
              i < j => articles[q[i]].created_at >= articles[q[j]].created_at }

\* JOIN users u ON a.author_id = u.id keeps the articles whose author row exists.
JoinedArticles == { a \in DOMAIN articles : articles[a].author_id \in DOMAIN users }

(* ------------------------------- Init ---------------------------------- *)

\* database.init_db on an empty database: the default admin row, no article.
Init ==
    /\ users = (1 :> [username |-> DEFAULT_ADMIN_USERNAME,
                      email |-> DEFAULT_ADMIN_EMAIL,
                      password_hash |-> DEFAULT_ADMIN_PASSWORD,
                      is_admin |-> TRUE, active |-> TRUE,
                      last_login |-> NoTime])
    /\ articles = << >>
    /\ nextUserId = 2
    /\ nextArticleId = 1
    /\ files = {}
    /\ nextUuid = 1
    /\ session = [s \in Sessions |-> EmptySession]
    /\ now = 0
    /\ plain = (1 :> DEFAULT_ADMIN_PASSWORD)
    /\ mail = NoMail
    /\ inflight = {}
    /\ resp = Response("init_db", "s1", "ok", 0, << >>, TRUE)

(* ------------------------- public and session routes ------------------- *)

\* The clock behind CURRENT_TIMESTAMP advances.
Tick ==
    /\ now < MaxClock
    /\ now' = now + 1
    /\ UNCHANGED <<users, articles, nextUserId, nextArticleId, files, nextUuid,
                   session, plain, mail, resp, inflight>>

\* IndexRows without the WHERE a.published = TRUE filter.
IndexRowsUnfiltered == JoinedArticles

\* The rows the index query selects.
IndexRows == { a \in JoinedArticles : articles[a].published }

\* app.index
index(s) ==
    /\ \E listing \in OrderByCreatedDesc(IndexRows) :
          resp' = Response("index", s, "ok", 0, listing, TRUE)
    /\ ReadOnly

\* The row the view_article query selects, as a set (empty: fetchone() is None).
ViewRows(article_id) == { a \in JoinedArticles : a = article_id /\ articles[a].published }

\* app.view_article
view_article(s, article_id) ==
    /\ IF ViewRows(article_id) = {}
       THEN resp' = Response("view_article", s, "not_found", article_id, << >>, TRUE)
       ELSE resp' = Response("view_article", s, "ok", article_id, <<article_id>>, TRUE)
    /\ ReadOnly

\* LoginRows without the AND active = TRUE condition.
LoginRowsAnyStatus(username) ==
    { u \in DOMAIN users : users[u].username = username }

\* The row the login query selects, as a set: username is UNIQUE.
LoginRows(username) ==
    { u \in DOMAIN users : users[u].username = username /\ users[u].active }

\* app.login line 43: the credential check.
PasswordMatches(user, password) == user.password_hash = password

\* app.login
login(s, method, username, password) ==
    /\ mail' = NoMail
    /\ UNCHANGED <<users, articles, nextUserId, nextArticleId, files, nextUuid,
                   now, plain, inflight>>
    /\ IF method = "GET"
       THEN /\ resp' = Response("login", s, "form", 0, << >>, FALSE)
            /\ UNCHANGED session
       ELSE IF \E u \in LoginRows(username) : PasswordMatches(users[u], password)
       THEN \E u \in LoginRows(username) :
               /\ session' = [session EXCEPT ![s] =
                                 [user_id |-> u, username |-> users[u].username,
                                  is_admin |-> users[u].is_admin]]
               /\ resp' = FormResponse("login", s, "login_ok", u, << >>, TRUE,
                                        <<username, password>>)
       ELSE /\ resp' = FormResponse("login", s, "invalid_login", 0, << >>, TRUE,
                                     <<username, password>>)
            /\ UNCHANGED session

\* session_clear as session.pop('user_id', None): the other keys stay.
session_pop_user_id(sess) == [k \in DOMAIN sess \ {"user_id"} |-> sess[k]]

\* app.logout line 56: session.clear()
session_clear(sess) == EmptySession

\* app.logout
logout(s) ==
    /\ session' = [session EXCEPT ![s] = session_clear(session[s])]
    /\ resp' = Response("logout", s, "logged_out", 0, << >>, FALSE)
    /\ mail' = NoMail
    /\ UNCHANGED <<users, articles, nextUserId, nextArticleId, files, nextUuid,
                   now, plain, inflight>>

\* The rows the dashboard query selects for a session.
DashboardRows(sess) ==
    IF SessionGet(sess, "is_admin")
    THEN JoinedArticles
    ELSE { a \in JoinedArticles : articles[a].author_id = sess["user_id"] }

\* app.dashboard
dashboard(s) ==
    /\ IF login_required(session[s]) # "pass"
       THEN resp' = Response("dashboard", s, login_required(session[s]), 0, << >>, FALSE)
       ELSE \E listing \in OrderByCreatedDesc(DashboardRows(session[s])) :
               resp' = Response("dashboard", s, "ok", 0, listing, TRUE)
    /\ ReadOnly

\* app.admin_users
admin_users(s) ==
    /\ IF admin_required(session[s]) # "pass"
       THEN resp' = Response("admin_users", s, admin_required(session[s]), 0, << >>, FALSE)
       ELSE resp' = Response("admin_users", s, "ok", 0, << >>, TRUE)
    /\ ReadOnly

(* ------------------------------ account routes ------------------------ *)

\* str.strip() on the text a form field of the model submits.
Strip(text) ==
    CASE text = " " -> ""
      [] text = " alice " -> "alice"
      [] OTHER -> text

\* UniqueViolation with the UNIQUE constraint of users.email missing.
UniqueViolationUsernameOnly(id, username, email) ==
    \E u \in DOMAIN users \ {id} : users[u].username = username

\* The UNIQUE constraints of users.username and users.email: would writing
\* (username, email) into row `id` raise sqlite3.IntegrityError?  For an
\* INSERT `id` is the new row's id.
UniqueViolation(id, username, email) ==
    \E u \in DOMAIN users \ {id} :
        users[u].username = username \/ users[u].email = email

\* StoredCredential cut to the first eight characters.
StoredCredentialTruncated(password) == SubSeq(password, 1, 8)

\* The value admin_add_user binds to the password_hash column (line 115).
StoredCredential(password) == password

\* add_user_outcome without the inner try: the outer except of line 127 would
\* report the raising send_welcome_email as an error.
add_user_outcome_fatal(mail_result) ==
    IF mail_result = "sent" THEN "created" ELSE "create_error"

\* What admin_add_user reports after the INSERT is committed: the inner try
\* of lines 120-124 turns a raising send_welcome_email into a warning.
add_user_outcome(mail_result) ==
    IF mail_result = "sent" THEN "created" ELSE "created_mail_failed"

\* app.admin_add_user
admin_add_user(s, method, form_username, form_email, is_admin, password, mail_result) ==
    LET username == Strip(form_username)
        email == Strip(form_email)
        form == <<form_username, form_email>>
        refuse(outcome, db) ==
            /\ resp' = Response("admin_add_user", s, outcome, 0, << >>, db)
            /\ ReadOnly
        reject(outcome, db) ==
            /\ resp' = FormResponse("admin_add_user", s, outcome, 0, << >>, db, form)
            /\ ReadOnly
    IN  IF admin_required(session[s]) # "pass" THEN refuse(admin_required(session[s]), FALSE)
        ELSE IF method = "GET" THEN refuse("form", FALSE)
        ELSE IF username = "" \/ email = "" THEN reject("validation_error", FALSE)
        ELSE IF UniqueViolation(nextUserId, username, email) THEN reject("create_error", TRUE)
        ELSE
            /\ nextUserId <= MaxUsers
            /\ users' = users @@ (nextUserId :>
                          [username |-> username, email |-> email,
                           password_hash |-> StoredCredential(password),
                           is_admin |-> is_admin, active |-> TRUE,
                           last_login |-> NoTime])
            /\ nextUserId' = nextUserId + 1
            /\ plain' = plain @@ (nextUserId :> password)
            /\ mail' = [to |-> email, username |-> username, password |-> password,
                        is_reset |-> FALSE, result |-> mail_result]
            /\ resp' = FormResponse("admin_add_user", s, add_user_outcome(mail_result),
                                     nextUserId, << >>, TRUE, form)
            /\ UNCHANGED <<articles, nextArticleId, files, nextUuid, session, now, inflight>>

\* What admin_edit_user reports after a reset: the inner try of lines 161-165
\* turns a raising send_welcome_email into a warning; the commit follows.
reset_outcome(mail_result) ==
    IF mail_result = "sent" THEN "updated_password_sent" ELSE "updated_mail_failed"

\* app.admin_edit_user
admin_edit_user(s, method, user_id, form_username, form_email, is_admin, active, reset_password, new_password, mail_result) ==
    LET username == Strip(form_username)
        email == Strip(form_email)
        form == <<form_username, form_email, is_admin, active, reset_password>>
        refuse(outcome, db) ==
            /\ resp' = Response("admin_edit_user", s, outcome, user_id, << >>, db)
            /\ ReadOnly
    IN  IF admin_required(session[s]) # "pass" THEN refuse(admin_required(session[s]), FALSE)
        ELSE IF user_id \notin DOMAIN users THEN refuse("user_not_found", TRUE)
        ELSE IF method = "GET" THEN refuse("form", TRUE)
        ELSE IF UniqueViolation(user_id, username, email) THEN
            /\ resp' = FormResponse("admin_edit_user", s, "update_error", user_id, << >>,
                                     TRUE, form)
            /\ ReadOnly
        ELSE IF reset_password THEN
            /\ users' = [users EXCEPT ![user_id] =
                          [@ EXCEPT !.username = username, !.email = email,
                                    !.is_admin = is_admin, !.active = active,
                                    !.password_hash = StoredCredential(new_password)]]
            /\ plain' = [plain EXCEPT ![user_id] = new_password]
            /\ mail' = [to |-> email, username |-> username, password |-> new_password,
                        is_reset |-> TRUE, result |-> mail_result]
            /\ resp' = FormResponse("admin_edit_user", s, reset_outcome(mail_result),
                                     user_id, << >>, TRUE, form)
            /\ UNCHANGED <<articles, nextUserId, nextArticleId, files, nextUuid, session, now, inflight>>
        ELSE
            /\ users' = [users EXCEPT ![user_id] =
                          [@ EXCEPT !.username = username, !.email = email,
                                    !.is_admin = is_admin, !.active = active]]
            /\ mail' = NoMail
            /\ resp' = FormResponse("admin_edit_user", s, "updated", user_id, << >>,
                                     TRUE, form)
            /\ UNCHANGED <<articles, nextUserId, nextArticleId, files, nextUuid, session,
                           now, plain, inflight>>

\* IsSelfDelete with the URL value compared as text against the integer in
\* the session: never equal.
IsSelfDeleteNever(sess, user_id) == FALSE

\* app.admin_delete_user line 187: the self-delete guard.
IsSelfDelete(sess, user_id) == user_id = sess["user_id"]

\* article_count with the WHERE clause on the article's id instead of author_id.
article_count_by_id(user_id) ==
    Cardinality({ a \in DOMAIN articles : a = user_id })

\* app.admin_delete_user lines 194-196: SELECT COUNT(*) ... WHERE author_id = ?
article_count(user_id) ==
    Cardinality({ a \in DOMAIN articles : articles[a].author_id = user_id })

\* app.admin_delete_user
admin_delete_user(s, user_id) ==
    LET refuse(outcome, db) ==
            /\ resp' = Response("admin_delete_user", s, outcome, user_id, << >>, db)
            /\ ReadOnly
    IN  IF admin_required(session[s]) # "pass" THEN refuse(admin_required(session[s]), FALSE)
        ELSE IF IsSelfDelete(session[s], user_id) THEN refuse("self_delete", FALSE)
        ELSE IF article_count(user_id) > 0 THEN refuse("has_articles", TRUE)
        ELSE
            /\ users' = DeleteRow(users, user_id)
            /\ plain' = DeleteRow(plain, user_id)
            /\ mail' = NoMail
            /\ resp' = Response("admin_delete_user", s, "deleted", user_id, << >>, TRUE)
            /\ UNCHANGED <<articles, nextUserId, nextArticleId, files, nextUuid, session, now, inflight>>

\* app.change_password
change_password(s, method, current_password, new_password, confirm_password) ==
    LET form == <<current_password, new_password, confirm_password>>
        refuse(outcome, db) ==
            /\ resp' = Response("change_password", s, outcome, 0, << >>, db)
            /\ ReadOnly
        reject(outcome, db) ==
            /\ resp' = FormResponse("change_password", s, outcome, 0, << >>, db, form)
            /\ ReadOnly
        uid == session[s]["user_id"]
    IN  IF login_required(session[s]) # "pass" THEN refuse(login_required(session[s]), FALSE)
        ELSE IF method = "GET" THEN refuse("form", FALSE)
        ELSE IF new_password # confirm_password THEN reject("mismatch", FALSE)
        ELSE IF ~is_strong_password(new_password) THEN reject("weak_password", FALSE)
        \* fetchone() is None for a deleted user: user['password_hash'] raises TypeError
        ELSE IF uid \notin DOMAIN users THEN reject("server_error", TRUE)
        ELSE IF users[uid].password_hash # current_password THEN reject("wrong_password", TRUE)
        ELSE
            /\ users' = [users EXCEPT ![uid].password_hash = StoredCredential(new_password)]
            /\ plain' = [plain EXCEPT ![uid] = new_password]
            /\ mail' = NoMail
            /\ resp' = FormResponse("change_password", s, "password_changed", uid, << >>,
                                     TRUE, form)
            /\ UNCHANGED <<articles, nextUserId, nextArticleId, files, nextUuid, session, now, inflight>>

(* ------------------------------ article routes ------------------------ *)

\* An uploaded file name is the sequence of its dot-separated parts:
\* "pic.PNG" is <<"pic", "PNG">>, ".png" is <<"", "png">>, "" is <<"">>.
\* str.lower() on the extensions the model uploads.
Lower(text) == IF text = "PNG" THEN "png" ELSE text

\* allowed_file without the test against Config.ALLOWED_EXTENSIONS.
allowed_file_any_extension(filename) == Len(filename) > 1

\* utils.allowed_file
allowed_file(filename) ==
    Len(filename) > 1 /\ Lower(filename[Len(filename)]) \in ALLOWED_EXTENSIONS

\* werkzeug secure_filename on the (ASCII alphanumeric) names of the model:
\* it strips leading and trailing dots, so leading and trailing empty parts go.
RECURSIVE StripDots(_)
StripDots(filename) ==
    IF filename = << >> THEN << >>
    ELSE IF Head(filename) = "" THEN StripDots(Tail(filename))
    ELSE IF filename[Len(filename)] = "" THEN StripDots(SubSeq(filename, 1, Len(filename) - 1))
    ELSE filename

secure_filename(filename) == StripDots(filename)

\* What request.files holds: no 'image' part, or a part with a file name.
NoUpload == [present |-> FALSE, filename |-> <<"">>]
Uploads ==
    { NoUpload,
      [present |-> TRUE, filename |-> <<"">>],
      [present |-> TRUE, filename |-> <<"pic", "PNG">>],
      [present |-> TRUE, filename |-> <<"notes", "txt">>],
      [present |-> TRUE, filename |-> <<"README">>],
      [present |-> TRUE, filename |-> <<"", "png">>] }

\* app.create_article line 222 / app.edit_article line 264
UploadAccepted(upload) ==
    upload.present /\ upload.filename # <<"">> /\ allowed_file(upload.filename)

\* rsplit('.', 1)[1] of the secured name raises IndexError when it has no dot.
ExtensionRaises(upload) == Len(secure_filename(upload.filename)) < 2

\* The stored name: str(uuid.uuid4()) + '.' + extension.
StoredName(upload) ==
    LET name == secure_filename(upload.filename)
    IN  <<nextUuid, Lower(name[Len(name)])>>

\* NewAuthorId taken from a form field instead of the session.
NewAuthorIdFromForm(sess, form_author_id) == form_author_id

\* app.create_article line 231: the author_id bound to the INSERT.
NewAuthorId(sess, form_author_id) == sess["user_id"]

\* app.create_article
create_article(s, method, title, content, published, upload, form_author_id, save_ok) ==
    LET form == <<form_author_id, title, content, upload>>
        refuse(outcome, db) ==
            /\ resp' = Response("create_article", s, outcome, 0, << >>, db)
            /\ ReadOnly
        insert(image_path) ==
            /\ nextArticleId <= MaxArticles
            /\ articles' = articles @@ (nextArticleId :>
                  [title |-> title, content |-> content, image_path |-> image_path,
                   author_id |-> NewAuthorId(session[s], form_author_id),
                   published |-> published, created_at |-> now, updated_at |-> now])
            /\ nextArticleId' = nextArticleId + 1
            /\ resp' = FormResponse("create_article", s, "created", nextArticleId, << >>,
                                     TRUE, form)
            /\ mail' = NoMail
            /\ UNCHANGED <<users, nextUserId, session, now, plain, inflight>>
    IN  IF login_required(session[s]) # "pass" THEN refuse(login_required(session[s]), FALSE)
        ELSE IF method = "GET" THEN refuse("form", FALSE)
        ELSE IF ~UploadAccepted(upload) THEN
            /\ insert(NullImage)
            /\ UNCHANGED <<files, nextUuid>>
        ELSE IF ExtensionRaises(upload) THEN
            /\ resp' = FormResponse("create_article", s, "server_error", 0, << >>, FALSE, form)
            /\ ReadOnly
        ELSE
            /\ nextUuid <= MaxUploads
            /\ nextUuid' = nextUuid + 1
            /\ IF save_ok
               THEN /\ files' = files \cup {StoredName(upload)}
                    /\ insert(StoredName(upload))
               ELSE \* file.save raises: the request ends in a 500 response
                    /\ resp' = FormResponse("create_article", s, "server_error", 0, << >>,
                                             FALSE, form)
                    /\ mail' = NoMail
                    /\ UNCHANGED <<users, articles, nextUserId, nextArticleId, files,
                                   session, now, plain, inflight>>

\* CanMutate with the ownership comparison lost: any logged-in session passes.
CanMutateAnyLoggedIn(sess, article) ==
    SessionGet(sess, "is_admin") \/ InSession(sess, "user_id")

\* app.edit_article line 251 / app.delete_article line 300: may this session
\* change the article?
CanMutate(sess, article) ==
    SessionGet(sess, "is_admin") \/ article.author_id = sess["user_id"]

\* EditedRow with created_at = CURRENT_TIMESTAMP added to the SET list.
EditedRowRestamped(article, title, content, image_path, published) ==
    [article EXCEPT !.title = title, !.content = content,
                    !.image_path = image_path, !.published = published,
                    !.updated_at = now, !.created_at = now]

\* app.edit_article lines 275-279: the row after the UPDATE.
EditedRow(article, title, content, image_path, published) ==
    [article EXCEPT !.title = title, !.content = content,
                    !.image_path = image_path, !.published = published,
                    !.updated_at = now]

\* app.edit_article
edit_article(s, method, article_id, title, content, published, upload, save_ok, remove_ok) ==
    LET form == <<title, content, published, upload>>
        refuse(outcome, db) ==
            /\ resp' = Response("edit_article", s, outcome, article_id, << >>, db)
            /\ ReadOnly
        article == articles[article_id]
        old_exists == article.image_path # NullImage /\ article.image_path \in files
        update(image_path) ==
            /\ articles' = [articles EXCEPT ![article_id] =
                  EditedRow(@, title, content, image_path, published)]
            /\ resp' = FormResponse("edit_article", s, "updated", article_id, << >>, TRUE, form)
        crash ==
            /\ resp' = FormResponse("edit_article", s, "server_error", article_id, << >>,
                                     TRUE, form)
            /\ UNCHANGED articles
    IN  IF login_required(session[s]) # "pass" THEN refuse(login_required(session[s]), FALSE)
        ELSE IF article_id \notin DOMAIN articles THEN refuse("not_found", TRUE)
        ELSE IF ~CanMutate(session[s], article) THEN refuse("forbidden", TRUE)
        ELSE IF method = "GET" THEN refuse("form", TRUE)
        ELSE
            /\ mail' = NoMail
            /\ UNCHANGED <<users, nextUserId, nextArticleId, session, now, plain, inflight>>
            /\ IF ~UploadAccepted(upload) THEN
                    /\ update(article.image_path)
                    /\ UNCHANGED <<files, nextUuid>>
               ELSE IF old_exists /\ ~remove_ok THEN
                    \* os.remove raises OSError
                    /\ crash
                    /\ UNCHANGED <<files, nextUuid>>
               ELSE IF ExtensionRaises(upload) THEN
                    /\ crash
                    /\ files' = files \ {article.image_path}
                    /\ UNCHANGED nextUuid
               ELSE
                    /\ nextUuid <= MaxUploads
                    /\ nextUuid' = nextUuid + 1
                    /\ IF save_ok
                       THEN /\ files' = (files \ {article.image_path}) \cup {StoredName(upload)}
                            /\ update(StoredName(upload))
                       ELSE /\ files' = files \ {article.image_path}
                            /\ crash

\* app.delete_article
delete_article(s, article_id, remove_ok) ==
    LET refuse(outcome, db) ==
            /\ resp' = Response("delete_article", s, outcome, article_id, << >>, db)
            /\ ReadOnly
        article == articles[article_id]
        old_exists == article.image_path # NullImage /\ article.image_path \in files
    IN  IF login_required(session[s]) # "pass" THEN refuse(login_required(session[s]), FALSE)
        ELSE IF article_id \notin DOMAIN articles THEN refuse("not_found", TRUE)
        ELSE IF ~CanMutate(session[s], article) THEN refuse("forbidden", TRUE)
        ELSE IF old_exists /\ ~remove_ok THEN refuse("server_error", TRUE)
        ELSE
            /\ files' = files \ {article.image_path}
            /\ articles' = DeleteRow(articles, article_id)
            /\ resp' = Response("delete_article", s, "deleted", article_id, << >>, TRUE)
            /\ mail' = NoMail
            /\ UNCHANGED <<users, nextUserId, nextArticleId, nextUuid, session, now, plain, inflight>>

(* ----------------------- article requests, step by step ---------------- *)

\* A request between file.save and conn.commit(): what it will write.
Pending(op, s, article_id, title, content, published, image_path) ==
    [op |-> op, sess |-> s, target |-> article_id, title |-> title,
     content |-> content, published |-> published, image_path |-> image_path,
     author_id |-> session[s]["user_id"]]

\* app.create_article lines 214-225 for an accepted upload: up to and
\* including file.save.
create_article_save(s, title, content, published, upload) ==
    /\ login_required(session[s]) = "pass"
    /\ UploadAccepted(upload)
    /\ ~ExtensionRaises(upload)
    /\ nextUuid <= MaxUploads
    /\ Cardinality(inflight) < MaxInflight
    /\ nextUuid' = nextUuid + 1
    /\ files' = files \cup {StoredName(upload)}
    /\ inflight' = inflight \cup
          {Pending("create_article", s, 0, title, content, published, StoredName(upload))}
    /\ UNCHANGED <<users, articles, nextUserId, nextArticleId, session, now, plain,
                   mail, resp>>

\* app.create_article lines 227-236: the INSERT, the commit and the response.
create_article_commit(r) ==
    /\ r \in inflight
    /\ r.op = "create_article"
    /\ nextArticleId <= MaxArticles
    /\ articles' = articles @@ (nextArticleId :>
          [title |-> r.title, content |-> r.content, image_path |-> r.image_path,
           author_id |-> r.author_id, published |-> r.published,
           created_at |-> now, updated_at |-> now])
    /\ nextArticleId' = nextArticleId + 1
    /\ inflight' = inflight \ {r}
    /\ resp' = Response("create_article", r.sess, "created", nextArticleId, << >>, TRUE)
    /\ mail' = NoMail
    /\ UNCHANGED <<users, nextUserId, files, nextUuid, session, now, plain>>

\* app.edit_article lines 243-273 for an accepted upload: the checks, the
\* removal of the old image and file.save.
edit_article_save(s, article_id, title, content, published, upload) ==
    /\ login_required(session[s]) = "pass"
    /\ article_id \in DOMAIN articles
    /\ CanMutate(session[s], articles[article_id])
    /\ UploadAccepted(upload)
    /\ ~ExtensionRaises(upload)
    /\ nextUuid <= MaxUploads
    /\ Cardinality(inflight) < MaxInflight
    /\ nextUuid' = nextUuid + 1
    /\ files' = (files \ {articles[article_id].image_path}) \cup {StoredName(upload)}
    /\ inflight' = inflight \cup
          {Pending("edit_article", s, article_id, title, content, published,
                   StoredName(upload))}
    /\ UNCHANGED <<users, articles, nextUserId, nextArticleId, session, now, plain,
                   mail, resp>>

\* app.edit_article lines 275-284: the UPDATE (of no row when the article is
\* gone), the commit and the response.
edit_article_commit(r) ==
    /\ r \in inflight
    /\ r.op = "edit_article"
    /\ articles' = [a \in DOMAIN articles |->
                      IF a = r.target
                      THEN EditedRow(articles[a], r.title, r.content, r.image_path,
                                     r.published)
                      ELSE articles[a]]
    /\ inflight' = inflight \ {r}
    /\ resp' = Response("edit_article", r.sess, "updated", r.target, << >>, TRUE)
    /\ mail' = NoMail
    /\ UNCHANGED <<users, nextUserId, nextArticleId, files, nextUuid, session, now, plain>>

(* ------------------------------ maintenance ---------------------------- *)

\* utils.cleanup_orphaned_images lines 195-199: the image_path values of the
\* articles table that are not NULL.
referenced_images ==
    { articles[a].image_path : a \in { b \in DOMAIN articles :
                                          articles[b].image_path # NullImage } }

\* lines 205-212: the files of the upload folder that glob "*.<ext>" finds for
\* an allowed extension.
upload_files == { f \in files : f[2] \in ALLOWED_EXTENSIONS }

\* orphaned_files without the subtraction of the referenced names.
orphaned_files_all_uploads == upload_files

\* line 215
orphaned_files == upload_files \ referenced_images

\* utils.cleanup_orphaned_images; os.remove raises OSError on the files of
\* `failing`.  The response holds removed_count, the names the loop tried to
\* remove and those it failed on.
cleanup_orphaned_images(failing) ==
    LET removed == orphaned_files \ failing
    IN  /\ failing \subseteq orphaned_files
        /\ files' = files \ removed
        /\ resp' = FormResponse("cleanup_orphaned_images", "s1", "returned",
                                 Cardinality(removed), << >>, TRUE,
                                 <<orphaned_files, failing>>)
        /\ mail' = NoMail
        /\ UNCHANGED <<users, articles, nextUserId, nextArticleId, nextUuid,
                       session, now, plain, inflight>>

(* ----------------------------- activity log ---------------------------- *)

\* log_activity_calls with the commit moved out of the try block: it runs
\* also after a failed execute.
log_activity_calls_commit_always(execute_ok, commit_ok) ==
    IF ~execute_ok THEN <<"execute", "print", "commit">>
    ELSE IF ~commit_ok THEN <<"execute", "commit", "print">>
    ELSE <<"execute", "commit">>

\* utils.log_activity lines 176-183: what the try block and its except
\* handler call on the connection and on stdout, in order.
log_activity_calls(execute_ok, commit_ok) ==
    IF ~execute_ok THEN <<"execute", "print">>
    ELSE IF ~commit_ok THEN <<"execute", "commit", "print">>
    ELSE <<"execute", "commit">>

\* utils.log_activity with the outcome of get_db_connection, execute, commit
\* and close.  The response holds the calls made, the rows committed to
\* activity_log, whether a connection was opened, and whether the call
\* returned or raised.
log_activity(user_id, action, description, connect_ok, execute_ok, commit_ok, close_ok) ==
    LET form == <<user_id, action, description, connect_ok, execute_ok, commit_ok, close_ok>>
        calls == IF ~connect_ok THEN <<"get_db_connection">>
                 ELSE <<"get_db_connection">> \o log_activity_calls(execute_ok, commit_ok)
                        \o <<"close">>
        raised == ~connect_ok \/ ~close_ok
        committed == IF connect_ok /\ execute_ok /\ commit_ok THEN 1 ELSE 0
    IN  /\ resp' = FormResponse("log_activity", "s1",
                                 IF raised THEN "raised" ELSE "returned",
                                 committed, calls, connect_ok, form)
        /\ mail' = NoMail
        /\ UNCHANGED <<users, articles, nextUserId, nextArticleId, files, nextUuid,
                       session, now, plain, inflight>>

(* --------------------------- the specification ------------------------- *)

UserIds == 1..MaxUsers
ArticleIds == 1..MaxArticles

\* The user name an edit form submits for row `id`: the one the form was
\* filled with, or one of `renames`.
EditUsernames(id, renames) ==
    (IF id \in DOMAIN users THEN {users[id].username} ELSE {"ghost"}) \cup renames

EditEmails(id) == IF id \in DOMAIN users THEN {users[id].email} ELSE {"ghost@x"}

\* The requests of each route, their inputs drawn from the pools P.
ReqIndex(P) == \E s \in P.sessions : index(s)

ReqViewArticle(P) == \E s \in P.sessions, a \in ArticleIds : view_article(s, a)

ReqLogin(P) ==
    \E s \in P.sessions, m \in P.methods, f \in P.logins : login(s, m, f[1], f[2])

ReqLogout(P) == \E s \in P.sessions : logout(s)

ReqDashboard(P) == \E s \in P.sessions : dashboard(s)

ReqAdminUsers(P) == \E s \in P.sessions : admin_users(s)

ReqAddUser(P) ==
    \E s \in P.sessions, m \in P.methods, f \in P.addForms, i \in P.issues :
        admin_add_user(s, m, f.username, f.email, f.is_admin, i[1], i[2])

ReqEditUser(P) ==
    \E s \in P.sessions, m \in P.methods, id \in UserIds, f \in P.editForms :
        \E u \in EditUsernames(id, P.renames), e \in EditEmails(id) :
            \/ /\ ~f.reset_password
               /\ admin_edit_user(s, m, id, u, e, f.is_admin, f.active, FALSE, << >>, "sent")
            \/ /\ f.reset_password
               /\ \E i \in P.issues :
                     admin_edit_user(s, m, id, u, e, f.is_admin, f.active, TRUE, i[1], i[2])

ReqDeleteUser(P) == \E s \in P.sessions, id \in UserIds : admin_delete_user(s, id)

ReqChangePassword(P) ==
    \E s \in P.sessions, m \in P.methods, f \in P.passwordForms :
        change_password(s, m, f[1], f[2], f[3])

ReqCreateArticle(P) ==
    \E s \in P.sessions, m \in P.methods, t \in P.titles, c \in P.contents,
       pub \in P.publishFlags, up \in P.uploads, au \in P.formAuthors,
       ok \in P.saveResults :
        create_article(s, m, t, c, pub, up, au, ok)

ReqEditArticle(P) ==
    \E s \in P.sessions, m \in P.methods, a \in ArticleIds, t \in P.titles,
       c \in P.contents, pub \in P.publishFlags, up \in P.uploads,
       ok \in P.saveResults, rm \in P.removeResults :
        edit_article(s, m, a, t, c, pub, up, ok, rm)

ReqDeleteArticle(P) ==
    \E s \in P.sessions, a \in ArticleIds, rm \in P.removeResults : delete_article(s, a, rm)

\* The forms the pools share.
AliceForm == [username |-> " alice ", email |-> "a@x", is_admin |-> FALSE]
PicUpload == [present |-> TRUE, filename |-> <<"pic", "PNG">>]
TextUpload == [present |-> TRUE, filename |-> <<"notes", "txt">>]
BareUpload == [present |-> TRUE, filename |-> <<"README">>]
DotPngUpload == [present |-> TRUE, filename |-> <<"", "png">>]
ChiefLogin == <<"chief", DEFAULT_ADMIN_PASSWORD>>
AliceLogin == <<"alice", StrongGenerated>>

\* Spec: the article routes.  Two browsers; one ordinary author next to the
\* default admin; articles change by an image upload or are deleted; the form
\* names either user as the author; the clock stands still.
ContentPools ==
    [sessions |-> Sessions,
     methods |-> {"POST"},
     logins |-> { ChiefLogin, AliceLogin },
     addForms |-> { AliceForm },
     issues |-> { <<StrongGenerated, "sent">> },
     titles |-> {"News"},
     contents |-> {"Body"},
     formAuthors |-> {1, 2},
     publishFlags |-> {TRUE},
     uploads |-> { NoUpload, PicUpload },
     saveResults |-> {TRUE},
     removeResults |-> {TRUE}]

Next ==
    \/ ReqLogin(ContentPools)
    \/ ReqLogout(ContentPools)
    \/ ReqAddUser(ContentPools)
    \/ ReqCreateArticle(ContentPools)
    \/ ReqEditArticle(ContentPools)
    \/ ReqDeleteArticle(ContentPools)

Spec == Init /\ [][Next]_vars

\* SpecPublic: the public views.  One browser that is anonymous, the admin or
\* an ordinary author; the clock runs.
PublicPools ==
    [sessions |-> {"s1"},
     methods |-> {"POST"},
     logins |-> { ChiefLogin, AliceLogin },
     addForms |-> { AliceForm },
     issues |-> { <<StrongGenerated, "sent">> },
     titles |-> {"News"},
     contents |-> {"Body"},
     formAuthors |-> {2},
     publishFlags |-> BOOLEAN,
     uploads |-> { NoUpload },
     saveResults |-> {TRUE},
     removeResults |-> {TRUE}]

NextPublic ==
    \/ Tick
    \/ ReqIndex(PublicPools)
    \/ ReqViewArticle(PublicPools)
    \/ ReqLogin(PublicPools)
    \/ ReqLogout(PublicPools)
    \/ ReqAddUser(PublicPools)
    \/ ReqCreateArticle(PublicPools)
    \/ ReqEditArticle(PublicPools)

SpecPublic == Init /\ [][NextPublic]_vars

\* SpecListing: the dashboard.  Two browsers, the clock runs, a user can be
\* deleted while a browser is still logged in as them.
ListingPools ==
    [sessions |-> Sessions,
     methods |-> {"POST"},
     logins |-> { ChiefLogin, AliceLogin },
     addForms |-> { AliceForm },
     issues |-> { <<StrongGenerated, "sent">> },
     titles |-> {"News"},
     contents |-> {"Body"},
     formAuthors |-> {2},
     publishFlags |-> BOOLEAN,
     uploads |-> { NoUpload },
     saveResults |-> {TRUE},
     removeResults |-> {TRUE}]

NextListing ==
    \/ Tick
    \/ ReqDashboard(ListingPools)
    \/ ReqLogin(ListingPools)
    \/ ReqLogout(ListingPools)
    \/ ReqAddUser(ListingPools)
    \/ ReqDeleteUser(ListingPools)
    \/ ReqCreateArticle(ListingPools)

SpecListing == Init /\ [][NextListing]_vars

\* SpecAccounts: the account routes, one browser.  Blank, duplicate and fresh
\* user forms, resets, demotion and deactivation, right and wrong passwords.
AccountPools ==
    [sessions |-> {"s1"},
     methods |-> {"POST"},
     logins |-> { ChiefLogin, AliceLogin, <<"alice", WeakGenerated>>,
                  <<"bob", StrongGenerated>> },
     addForms |-> { AliceForm,
                    [username |-> "alice", email |-> "a@x", is_admin |-> TRUE],
                    [username |-> " ", email |-> "a@x", is_admin |-> FALSE],
                    [username |-> "chief", email |-> "c@x", is_admin |-> FALSE],
                    [username |-> "bob", email |-> "admin@x", is_admin |-> FALSE] },
     editForms |-> { [is_admin |-> FALSE, active |-> FALSE, reset_password |-> FALSE],
                     [is_admin |-> TRUE, active |-> TRUE, reset_password |-> TRUE] },
     renames |-> {"chief"},
     issues |-> { <<WeakGenerated, "sent">>, <<StrongGenerated, "failed">> },
     passwordForms |-> { <<StrongGenerated, TestPassword, TestPassword>>,
                         <<StrongGenerated, TestPassword, ShortPassword>> },
     titles |-> {"News"},
     contents |-> {"Body"},
     formAuthors |-> {2},
     publishFlags |-> {TRUE},
     uploads |-> { NoUpload },
     saveResults |-> {TRUE},
     removeResults |-> {TRUE}]

NextAccounts ==
    \/ ReqLogin(AccountPools)
    \/ ReqLogout(AccountPools)
    \/ ReqAddUser(AccountPools)
    \/ ReqEditUser(AccountPools)
    \/ ReqDeleteUser(AccountPools)
    \/ ReqChangePassword(AccountPools)
    \/ ReqCreateArticle(AccountPools)

SpecAccounts == Init /\ [][NextAccounts]_vars

\* SpecGuards: every route behind a guard, GET and POST, one browser, one form
\* per route.
GuardPools ==
    [sessions |-> {"s1"},
     methods |-> {"GET", "POST"},
     logins |-> { ChiefLogin, AliceLogin },
     addForms |-> { AliceForm },
     editForms |-> { [is_admin |-> FALSE, active |-> TRUE, reset_password |-> TRUE] },
     renames |-> {},
     issues |-> { <<StrongGenerated, "sent">> },
     passwordForms |-> { <<StrongGenerated, StrongGenerated, StrongGenerated>> },
     titles |-> {"News"},
     contents |-> {"Body"},
     formAuthors |-> {2},
     publishFlags |-> {TRUE},
     uploads |-> { NoUpload },
     saveResults |-> {TRUE},
     removeResults |-> {TRUE}]

NextGuards ==
    \/ ReqLogin(GuardPools)
    \/ ReqLogout(GuardPools)
    \/ ReqDashboard(GuardPools)
    \/ ReqAdminUsers(GuardPools)
    \/ ReqAddUser(GuardPools)
    \/ ReqEditUser(GuardPools)
    \/ ReqDeleteUser(GuardPools)
    \/ ReqChangePassword(GuardPools)
    \/ ReqCreateArticle(GuardPools)
    \/ ReqEditArticle(GuardPools)
    \/ ReqDeleteArticle(GuardPools)

SpecGuards == Init /\ [][NextGuards]_vars

\* SpecCredentials: creating users, resetting and changing passwords, one
\* browser.  User forms with a blank or taken user name or email; the notifier
\* delivers or raises; password forms that mismatch, are weak, or carry a
\* wrong or the right current password.
CredentialPools ==
    [sessions |-> {"s1"},
     methods |-> {"POST"},
     logins |-> { ChiefLogin, AliceLogin, <<"alice", WeakGenerated>>,
                  <<"alice", TestPassword>> },
     addForms |-> { AliceForm,
                    [username |-> " ", email |-> "a@x", is_admin |-> FALSE],
                    [username |-> "bob", email |-> " ", is_admin |-> FALSE],
                    [username |-> "chief", email |-> "c@x", is_admin |-> FALSE],
                    [username |-> "bob", email |-> "admin@x", is_admin |-> FALSE] },
     editForms |-> { [is_admin |-> FALSE, active |-> TRUE, reset_password |-> FALSE],
                     [is_admin |-> TRUE, active |-> TRUE, reset_password |-> TRUE] },
     renames |-> {},
     issues |-> { <<WeakGenerated, "sent">>, <<StrongGenerated, "failed">> },
     passwordForms |-> { <<StrongGenerated, TestPassword, TestPassword>>,
                         <<StrongGenerated, TestPassword, ShortPassword>>,
                         <<StrongGenerated, ShortPassword, ShortPassword>> }]

NextCredentials ==
    \/ ReqLogin(CredentialPools)
    \/ ReqLogout(CredentialPools)
    \/ ReqAddUser(CredentialPools)
    \/ ReqEditUser(CredentialPools)
    \/ ReqChangePassword(CredentialPools)

SpecCredentials == Init /\ [][NextCredentials]_vars

\* SpecFaults: the article routes when the upload folder misbehaves.  One
\* browser, the default admin; file.save and os.remove may raise; an upload may
\* be the hidden file ".png", which passes allowed_file.
FaultPools ==
    [sessions |-> {"s1"},
     methods |-> {"POST"},
     logins |-> { ChiefLogin },
     titles |-> {"News"},
     contents |-> {"Body"},
     formAuthors |-> {1},
     publishFlags |-> {TRUE},
     uploads |-> { NoUpload, PicUpload, DotPngUpload },
     saveResults |-> BOOLEAN,
     removeResults |-> BOOLEAN]

NextFaults ==
    \/ ReqLogin(FaultPools)
    \/ ReqLogout(FaultPools)
    \/ ReqCreateArticle(FaultPools)
    \/ ReqEditArticle(FaultPools)
    \/ ReqDeleteArticle(FaultPools)

SpecFaults == Init /\ [][NextFaults]_vars

\* SpecPolicy: is_strong_password applied to one password.  The inputs hold
\* any subset of the four character classes, filled up with a character of
\* none of them to every length up to MaxPasswordLen, and the passwords the
\* routes use.
ClassSamples == <<"T", "e", "1", "@">>
Filler == "_"

PolicyInput(classes, length) ==
    LET core == SelectSeq(ClassSamples, LAMBDA c : c \in classes)
    IN  core \o [i \in 1..(length - Len(core)) |-> Filler]

PolicyInputs ==
    { PolicyInput(classes, length) :
        classes \in SUBSET {"T", "e", "1", "@"}, length \in 4..MaxPasswordLen }
    \cup { TestPassword, ShortPassword, StrongGenerated, WeakGenerated }

InitPolicy ==
    /\ \E password \in PolicyInputs :
          resp = FormResponse("input", "s1", "pending", 0, << >>, FALSE, <<password>>)
    /\ users = << >>
    /\ articles = << >>
    /\ nextUserId = 1
    /\ nextArticleId = 1
    /\ files = {}
    /\ nextUuid = 1
    /\ session = [s \in Sessions |-> EmptySession]
    /\ now = 0
    /\ plain = << >>
    /\ mail = NoMail
    /\ inflight = {}

\* One call of is_strong_password on the input.
call_is_strong_password ==
    /\ resp.op = "input"
    /\ resp' = [resp EXCEPT !.op = "is_strong_password",
                            !.outcome = IF is_strong_password(resp.form[1])
                                        THEN "True" ELSE "False"]
    /\ UNCHANGED <<users, articles, nextUserId, nextArticleId, files, nextUuid,
                   session, now, plain, mail, inflight>>

NextPolicy == call_is_strong_password

SpecPolicy == InitPolicy /\ [][NextPolicy]_vars

\* SpecGenerator: generate_random_password asked for a length of 3 up to
\* MaxGenerated; secrets.choice draws from five characters of the alphabet.
DrawnChars == {"a", "q", "T", "7", "#"}

InitGenerator ==
    /\ \E length \in 3..MaxGenerated :
          resp = FormResponse("input", "s1", "pending", length, << >>, FALSE, << >>)
    /\ users = << >>
    /\ articles = << >>
    /\ nextUserId = 1
    /\ nextArticleId = 1
    /\ files = {}
    /\ nextUuid = 1
    /\ session = [s \in Sessions |-> EmptySession]
    /\ now = 0
    /\ plain = << >>
    /\ mail = NoMail
    /\ inflight = {}

\* One call of generate_random_password(length).
call_generate_random_password ==
    /\ resp.op = "input"
    /\ \E password \in [1..resp.target -> DrawnChars] :
          /\ password \in generate_random_password(resp.target)
          /\ resp' = [resp EXCEPT !.op = "generate_random_password",
                                  !.outcome = "returned",
                                  !.form = <<password>>]
    /\ UNCHANGED <<users, articles, nextUserId, nextArticleId, files, nextUuid,
                   session, now, plain, mail, inflight>>

NextGenerator == call_generate_random_password

SpecGenerator == InitGenerator /\ [][NextGenerator]_vars

\* SpecCleanup: cleanup_orphaned_images run on an upload folder and an
\* articles table as earlier requests, failed requests or an operator may
\* have left them: files with and without an allowed extension, referenced or
\* not, and rows whose image is NULL, present or missing.
FolderNames == { <<1, "png">>, <<2, "jpg">>, <<3, "png">>, <<4, "txt">> }
ReferencedNames == { NullImage, <<1, "png">>, <<2, "jpg">> }

ArticleRow(image_path) ==
    [title |-> "News", content |-> "Body", image_path |-> image_path,
     author_id |-> 1, published |-> TRUE, created_at |-> 0, updated_at |-> 0]

InitCleanup ==
    /\ files \in SUBSET FolderNames
    /\ \E n \in 0..MaxArticles :
          /\ \E images \in [1..n -> ReferencedNames] :
                articles = [a \in 1..n |-> ArticleRow(images[a])]
          /\ nextArticleId = n + 1
    /\ users = (1 :> [username |-> DEFAULT_ADMIN_USERNAME,
                      email |-> DEFAULT_ADMIN_EMAIL,
                      password_hash |-> DEFAULT_ADMIN_PASSWORD,
                      is_admin |-> TRUE, active |-> TRUE,
                      last_login |-> NoTime])
    /\ nextUserId = 2
    /\ nextUuid = 1
    /\ session = [s \in Sessions |-> EmptySession]
    /\ now = 0
    /\ plain = (1 :> DEFAULT_ADMIN_PASSWORD)
    /\ mail = NoMail
    /\ inflight = {}
    /\ resp = Response("init_db", "s1", "ok", 0, << >>, TRUE)

NextCleanup == \E failing \in SUBSET FolderNames : cleanup_orphaned_images(failing)

SpecCleanup == InitCleanup /\ [][NextCleanup]_vars

\* SpecActivity: one call of log_activity; any of get_db_connection, execute,
\* commit and close may raise.
ActivityInputs ==
    [user_id : UserIds, action : {"login", "create_post"},
     description : {"None", "New post created"},
     connect_ok : BOOLEAN, execute_ok : BOOLEAN, commit_ok : BOOLEAN, close_ok : BOOLEAN]

InitActivity ==
    /\ \E in \in ActivityInputs :
          resp = FormResponse("input", "s1", "pending", 0, << >>, FALSE, <<in>>)
    /\ users = << >>
    /\ articles = << >>
    /\ nextUserId = 1
    /\ nextArticleId = 1
    /\ files = {}
    /\ nextUuid = 1
    /\ session = [s \in Sessions |-> EmptySession]
    /\ now = 0
    /\ plain = << >>
    /\ mail = NoMail
    /\ inflight = {}

call_log_activity ==
    /\ resp.op = "input"
    /\ LET in == resp.form[1]
       IN  log_activity(in.user_id, in.action, in.description, in.connect_ok,
                        in.execute_ok, in.commit_ok, in.close_ok)

NextActivity == call_log_activity

SpecActivity == InitActivity /\ [][NextActivity]_vars

\* SpecForms: what the article forms may carry.  One browser, the default
\* admin; titles and contents that are empty; uploads with an allowed
\* extension, another extension or none.
FormPools ==
    [sessions |-> {"s1"},
     methods |-> {"POST"},
     logins |-> { ChiefLogin },
     titles |-> {"News", ""},
     contents |-> {"Body", ""},
     formAuthors |-> {1},
     publishFlags |-> {TRUE},
     uploads |-> { NoUpload, PicUpload, TextUpload, BareUpload },
     saveResults |-> {TRUE},
     removeResults |-> {TRUE}]

NextForms ==
    \/ ReqLogin(FormPools)
    \/ ReqCreateArticle(FormPools)
    \/ ReqEditArticle(FormPools)

SpecForms == Init /\ [][NextForms]_vars

\* SpecRace: create_article and edit_article taken in two steps, file.save
\* first and the commit later, while cleanup_orphaned_images runs in between.
\* One browser, the default admin; file.save succeeds, the removals of the
\* cleanup may fail.
RacePools ==
    [sessions |-> {"s1"},
     methods |-> {"POST"},
     logins |-> { ChiefLogin }]

ReqCreateSave ==
    \E pub \in BOOLEAN : create_article_save("s1", "News", "Body", pub, PicUpload)

ReqCreateCommit == \E r \in inflight : create_article_commit(r)

ReqEditSave ==
    \E a \in ArticleIds, pub \in BOOLEAN :
        edit_article_save("s1", a, "News", "Body", pub, PicUpload)

ReqCleanup == \E failing \in SUBSET files : cleanup_orphaned_images(failing)

ReqEditCommit == \E r \in inflight : edit_article_commit(r)

NextRace ==
    \/ ReqLogin(RacePools)
    \/ ReqCreateSave
    \/ ReqCreateCommit
    \/ ReqEditSave
    \/ ReqEditCommit
    \/ ReqCleanup

SpecRace == Init /\ [][NextRace]_vars

(* -------------------------------- claims ------------------------------- *)

\* A step that is the request `op` (Tick is the only step that moves the clock).
IsRequest(op) == now' = now /\ resp'.op = op

\* The session is logged in, is not admin, and is not the author of row `a`.
NonOwnerNonAdmin(sess, a) ==
    /\ InSession(sess, "user_id")
    /\ ~SessionGet(sess, "is_admin")
    /\ a \in DOMAIN articles
    /\ articles[a].author_id # sess["user_id"]

\* C1: edit_article and delete_article change or delete an article row, or a
\* stored image, only when the acting session is the article's author or has
\* is_admin set; the request of a logged-in non-owner non-admin is refused and
\* leaves the articles table and the upload folder unchanged.
C1_OnlyOwnerOrAdminMutates ==
    [][ (IsRequest("edit_article") \/ IsRequest("delete_article")) =>
          LET sess == session[resp'.sess]
              a == resp'.target
          IN  /\ (articles' # articles \/ files' # files) =>
                    /\ InSession(sess, "user_id")
                    /\ a \in DOMAIN articles
                    /\ (sess["is_admin"] \/ articles[a].author_id = sess["user_id"])
                    /\ \A b \in DOMAIN articles \ {a} :
                          b \in DOMAIN articles' /\ articles'[b] = articles[b]
              /\ NonOwnerNonAdmin(sess, a) =>
                    /\ resp'.outcome = "forbidden"
                    /\ articles' = articles
                    /\ files' = files ]_vars

\* C1 witness: a logged-in non-owner non-admin was refused on an article that
\* has a stored image.
C1_Witness ==
    /\ resp.op \in {"edit_article", "delete_article"}
    /\ resp.outcome = "forbidden"
    /\ NonOwnerNonAdmin(session[resp.sess], resp.target)
    /\ articles[resp.target].image_path \in files

\* C10: every article created by create_article has author_id equal to the
\* user_id of the session that made the request, whatever author the form
\* names, and the request changes no other row.
C10_AuthorIsSessionUser ==
    [][ IsRequest("create_article") /\ articles' # articles =>
          LET created == DOMAIN articles' \ DOMAIN articles
          IN  /\ Cardinality(created) = 1
              /\ \A a \in created :
                    articles'[a].author_id = session[resp'.sess]["user_id"]
              /\ \A a \in DOMAIN articles :
                    a \in DOMAIN articles' /\ articles'[a] = articles[a] ]_vars

\* C10 witness: an article was created by a request whose form named another
\* user as the author.
C10_Witness ==
    /\ resp.op = "create_article"
    /\ resp.outcome = "created"
    /\ resp.form[1] # session[resp.sess]["user_id"]
    /\ resp.target \in DOMAIN articles
    /\ articles[resp.target].author_id = session[resp.sess]["user_id"]

\* The listing is ordered newest-first by creation time.
NewestFirst(listing) ==
    \A i, j \in 1..Len(listing) :
        i < j => articles[listing[i]].created_at >= articles[listing[j]].created_at

\* The rows of a listing, as a set.
Listed(listing) == { listing[i] : i \in 1..Len(listing) }

\* C3: the index listing and the view_article detail expose only articles
\* whose published flag is true, whoever asks (the author and admins
\* included); the detail view of an unpublished or missing article returns no
\* article; the index listing is ordered newest-first by created_at.
C3_PublicViewsOnlyPublished ==
    /\ resp.op = "index" =>
          /\ \A a \in Listed(resp.listing) : a \in DOMAIN articles /\ articles[a].published
          /\ NewestFirst(resp.listing)
    /\ resp.op = "view_article" =>
          /\ \A a \in Listed(resp.listing) :
                a = resp.target /\ a \in DOMAIN articles /\ articles[a].published
          /\ (resp.target \notin DOMAIN articles \/ ~articles[resp.target].published) =>
                resp.listing = << >> /\ resp.outcome = "not_found"

\* C3 witness: the index was served to the logged-in author of an unpublished
\* article and lists another, published, article.
C3_Witness ==
    /\ resp.op = "index"
    /\ Len(resp.listing) = 1
    /\ InSession(session[resp.sess], "user_id")
    /\ \E a \in DOMAIN articles :
          /\ ~articles[a].published
          /\ articles[a].author_id = session[resp.sess]["user_id"]

\* C4 as claimed: the dashboard lists all articles for an admin session and
\* exactly the session user's own articles otherwise, newest first.
C4_DashboardListsAllOrOwn ==
    (resp.op = "dashboard" /\ resp.outcome = "ok") =>
        LET sess == session[resp.sess]
        IN  /\ Listed(resp.listing) =
                  (IF sess["is_admin"] THEN DOMAIN articles
                   ELSE { a \in DOMAIN articles : articles[a].author_id = sess["user_id"] })
            /\ NewestFirst(resp.listing)

\* C2 as claimed: the stored credential of a user is never that user's
\* plaintext password (the one configured by init_db, issued by admin_add_user
\* or a reset, or chosen in change_password).
C2_CredentialNeverPlaintext ==
    \A u \in DOMAIN users : users[u].password_hash # plain[u]

\* The identity login stores in the session for user row u.
IdentityOf(u) ==
    [user_id |-> u, username |-> users[u].username, is_admin |-> users[u].is_admin]

\* C6: a login POST establishes a session only when a row with the submitted
\* username exists, is active and its stored credential equals the submitted
\* password, and then the session holds that row's identity; for an unknown
\* username, a wrong password or an inactive account the outcome is the one
\* failure result and the session is left as it was.
C6_LoginOnlyWithValidCredentials ==
    [][ (IsRequest("login") /\ resp'.form # << >>) =>
          LET s == resp'.sess
              valid == { u \in DOMAIN users :
                           /\ users[u].username = resp'.form[1]
                           /\ users[u].active
                           /\ users[u].password_hash = resp'.form[2] }
          IN  /\ valid # {} =>
                    /\ resp'.outcome = "login_ok"
                    /\ \E u \in valid : session'[s] = IdentityOf(u)
              /\ valid = {} =>
                    /\ resp'.outcome = "invalid_login"
                    /\ session' = session
              /\ \A o \in Sessions \ {s} : session'[o] = session[o] ]_vars

\* C6 witness: a login with the right password of a deactivated account was
\* refused.
C6_Witness ==
    /\ resp.op = "login"
    /\ resp.outcome = "invalid_login"
    /\ \E u \in DOMAIN users :
          /\ users[u].username = resp.form[1]
          /\ users[u].password_hash = resp.form[2]
          /\ ~users[u].active
    /\ session[resp.sess] = EmptySession

\* C7 as claimed: a successful login records last_login on the user's row.
C7_LoginRecordsLastLogin ==
    (resp.op = "login" /\ resp.outcome = "login_ok" /\ resp.target \in DOMAIN users) =>
        users[resp.target].last_login # NoTime

\* C8: admin_delete_user on the session's own user id deletes nothing, however
\* many articles that user owns, and answers before opening a database
\* connection.
C8_SelfDeleteRefused ==
    [][ (/\ IsRequest("admin_delete_user")
         /\ InSession(session[resp'.sess], "user_id")
         /\ resp'.target = session[resp'.sess]["user_id"]) =>
          /\ users' = users
          /\ articles' = articles
          /\ resp'.outcome \in {"self_delete", "forbidden"}
          /\ ~resp'.db ]_vars

\* C8 witness: an admin with no article of their own asked to delete their own
\* row, which is still there.
C8_Witness ==
    /\ resp.op = "admin_delete_user"
    /\ resp.outcome = "self_delete"
    /\ resp.target = session[resp.sess]["user_id"]
    /\ resp.target \in DOMAIN users
    /\ \A a \in DOMAIN articles : articles[a].author_id # resp.target

\* C9: admin_delete_user on a user who is the author of at least one article
\* fails and removes no user row and no article; by an admin session, on
\* another existing user with no article, it succeeds and removes exactly
\* that user's row.
C9_DeleteUserGuardedByArticles ==
    [][ IsRequest("admin_delete_user") =>
          LET sess == session[resp'.sess]
              id == resp'.target
              authored == { a \in DOMAIN articles : articles[a].author_id = id }
          IN  /\ authored # {} =>
                    /\ resp'.outcome # "deleted"
                    /\ users' = users
                    /\ articles' = articles
              /\ (/\ admin_required(sess) = "pass"
                  /\ id # sess["user_id"]
                  /\ id \in DOMAIN users
                  /\ authored = {}) =>
                    /\ resp'.outcome = "deleted"
                    /\ DOMAIN users' = DOMAIN users \ {id}
                    /\ \A u \in DOMAIN users' : users'[u] = users[u]
                    /\ articles' = articles ]_vars

\* C9 witness: an admin asked to delete another user who is the author of an
\* article and was refused.
C9_Witness ==
    /\ resp.op = "admin_delete_user"
    /\ resp.outcome = "has_articles"
    /\ resp.target \in DOMAIN users
    /\ resp.target # session[resp.sess]["user_id"]
    /\ \E a \in DOMAIN articles : articles[a].author_id = resp.target

\* The routes behind login_required, and those behind admin_required.
LoginRoutes ==
    {"dashboard", "create_article", "edit_article", "delete_article", "change_password"}
AdminRoutes == {"admin_users", "admin_add_user", "admin_edit_user", "admin_delete_user"}

C11_OldRemovedOnlyAfterNewSaved ==
    [][ IsRequest("edit_article") =>
          \A old \in files \ files' :
              \E new \in files' \ files :
                  /\ resp'.target \in DOMAIN articles'
                  /\ articles'[resp'.target].image_path = new ]_vars

\* C12 as claimed: every article row with a non-NULL image_path names a file
\* that exists in the upload folder.
C12_ImageReferencesExist ==
    \A a \in DOMAIN articles :
        articles[a].image_path # NullImage => articles[a].image_path \in files

\* C13 as claimed: delete_article by the author or an admin removes the
\* article row, also when removing its stored image fails.
C13_DeleteSurvivesRemoveFailure ==
    [][ (/\ IsRequest("delete_article")
         /\ InSession(session[resp'.sess], "user_id")
         /\ resp'.target \in DOMAIN articles
         /\ \/ SessionGet(session[resp'.sess], "is_admin")
            \/ articles[resp'.target].author_id = session[resp'.sess]["user_id"]) =>
          resp'.target \notin DOMAIN articles' ]_vars

\* The user name or the email is already that of a row of the users table.
Taken(username, email) ==
    \E u \in DOMAIN users : users[u].username = username \/ users[u].email = email

\* C14: an admin_add_user POST whose user name or email is blank after
\* trimming, or is already that of an existing user, fails: it creates no user
\* row, changes no existing row and hands no email to the notifier.
C14_BlankOrTakenUserRejected ==
    [][ (IsRequest("admin_add_user") /\ resp'.form # << >>) =>
          LET username == Strip(resp'.form[1])
              email == Strip(resp'.form[2])
          IN  (username = "" \/ email = "" \/ Taken(username, email)) =>
                  /\ resp'.outcome \in {"validation_error", "create_error"}
                  /\ users' = users
                  /\ nextUserId' = nextUserId
                  /\ mail' = NoMail
                  /\ UNCHANGED <<articles, plain, session>> ]_vars

\* C14 witness: a form with a fresh user name and the email of an existing
\* user was rejected.
C14_Witness ==
    /\ resp.op = "admin_add_user"
    /\ resp.outcome = "create_error"
    /\ \A u \in DOMAIN users : users[u].username # Strip(resp.form[1])
    /\ \E u \in DOMAIN users : users[u].email = Strip(resp.form[2])
    /\ mail = NoMail

\* C15: a raising send_welcome_email is never fatal to the account operation.
\* After admin_add_user the new row stays committed and the mailed password
\* logs in; after admin_edit_user with reset_password the submitted fields and
\* the new credential are committed; in both cases the outcome is the
\* warning, not an error, and no other row changes.
C15_MailFailureNotFatal ==
    [][ (/\ now' = now
         /\ resp'.op \in {"admin_add_user", "admin_edit_user"}
         /\ mail'.result = "failed") =>
          LET id == resp'.target
          IN  /\ id \in DOMAIN users'
              /\ users'[id].username = mail'.username
              /\ users'[id].email = mail'.to
              /\ PasswordMatches(users'[id], mail'.password)
              /\ \A u \in DOMAIN users \ {id} :
                    u \in DOMAIN users' /\ users'[u] = users[u]
              /\ resp'.op = "admin_add_user" =>
                    /\ id \notin DOMAIN users
                    /\ ~mail'.is_reset
                    /\ resp'.outcome = "created_mail_failed"
              /\ resp'.op = "admin_edit_user" =>
                    /\ id \in DOMAIN users
                    /\ mail'.is_reset
                    /\ resp'.form[5]
                    /\ users'[id].is_admin = resp'.form[3]
                    /\ users'[id].active = resp'.form[4]
                    /\ resp'.outcome = "updated_mail_failed" ]_vars

\* C15 witness: a user was created although the welcome email failed, and the
\* password the notifier was handed is the one the row accepts.
C15_Witness ==
    /\ resp.op = "admin_add_user"
    /\ resp.outcome = "created_mail_failed"
    /\ mail.result = "failed"
    /\ resp.target \in DOMAIN users
    /\ PasswordMatches(users[resp.target], mail.password)

\* The strength policy: 8 to 20 characters, among them an upper-case letter, a
\* lower-case letter, a digit and a character of the special set.
MeetsPolicy(p) ==
    /\ Len(p) >= 8
    /\ Len(p) <= 20
    /\ \E i \in 1..Len(p) : p[i] \in UpperChars
    /\ \E i \in 1..Len(p) : p[i] \in LowerChars
    /\ \E i \in 1..Len(p) : p[i] \in DigitChars
    /\ \E i \in 1..Len(p) : p[i] \in SpecialChars

\* C16: a change_password POST leaves every stored credential as it was when
\* the new password differs from its confirmation, fails the strength policy,
\* or the current password does not match the stored credential; otherwise it
\* succeeds and changes the credential of the session's own user and nothing
\* else in the users table.
C16_ChangePasswordOnlyOnSuccess ==
    [][ (IsRequest("change_password") /\ resp'.form # << >>) =>
          LET uid == session[resp'.sess]["user_id"]
              current == resp'.form[1]
              new == resp'.form[2]
              confirm == resp'.form[3]
              mismatch == new # confirm
              weak == ~MeetsPolicy(new)
              wrong == uid \notin DOMAIN users \/ ~PasswordMatches(users[uid], current)
          IN  /\ mismatch => resp'.outcome = "mismatch"
              /\ (~mismatch /\ weak) => resp'.outcome = "weak_password"
              /\ (mismatch \/ weak \/ wrong) =>
                    /\ users' = users
                    /\ resp'.outcome # "password_changed"
              /\ ~(mismatch \/ weak \/ wrong) =>
                    /\ resp'.outcome = "password_changed"
                    /\ DOMAIN users' = DOMAIN users
                    /\ PasswordMatches(users'[uid], new)
                    /\ users' = [users EXCEPT ![uid].password_hash = users'[uid].password_hash]
              /\ UNCHANGED <<articles, session>> ]_vars

\* C16 witness: a weak new password, given twice together with the right
\* current password, was refused.
C16_Witness ==
    /\ resp.op = "change_password"
    /\ resp.outcome = "weak_password"
    /\ resp.form[2] = resp.form[3]
    /\ session[resp.sess]["user_id"] \in DOMAIN users
    /\ PasswordMatches(users[session[resp.sess]["user_id"]], resp.form[1])

\* C17: logout leaves the browser's session empty whatever it held before
\* (logged in or not, so a repeated logout changes nothing more) and touches
\* nothing else; a session without user_id gets one only through a successful
\* login of that browser; and until then every login_required or
\* admin_required route refuses it.
C17_LogoutDestroysSession ==
    [][ now' = now =>
          /\ resp'.op = "logout" =>
                /\ session'[resp'.sess] = EmptySession
                /\ \A o \in Sessions \ {resp'.sess} : session'[o] = session[o]
                /\ UNCHANGED <<users, articles, files>>
          /\ \A s \in Sessions :
                (~InSession(session[s], "user_id") /\ InSession(session'[s], "user_id")) =>
                    /\ resp'.op = "login"
                    /\ resp'.outcome = "login_ok"
                    /\ resp'.sess = s
          /\ (/\ resp'.op \in LoginRoutes \cup AdminRoutes
              /\ ~InSession(session[resp'.sess], "user_id")) =>
                /\ resp'.outcome = "unauthenticated"
                /\ session' = session ]_vars

\* C17 witness: the one browser, which had been logged in as the admin and
\* created a user, is logged out and was refused on a guarded route.
C17_Witness ==
    /\ resp.op \in LoginRoutes \cup AdminRoutes
    /\ resp.outcome = "unauthenticated"
    /\ session[resp.sess] = EmptySession
    /\ nextUserId > 2

\* C18: is_strong_password(p) returns True exactly when p has 8 to 20
\* characters and holds an upper-case letter, a lower-case letter, a digit and
\* a character of the special set; otherwise it returns False.
C18_StrongIffPolicy ==
    resp.op = "is_strong_password" =>
        /\ resp.outcome \in {"True", "False"}
        /\ (resp.outcome = "True") <=> MeetsPolicy(resp.form[1])

\* C18 witness: a password of 21 characters with all four classes was
\* rejected.
C18_Witness ==
    /\ resp.op = "is_strong_password"
    /\ resp.outcome = "False"
    /\ Len(resp.form[1]) = 21
    /\ \A c \in {"T", "e", "1", "@"} : \E i \in 1..21 : resp.form[1][i] = c

\* C19 as claimed: the password generate_random_password(n) returns has
\* exactly n characters, among them a lower-case letter, an upper-case letter
\* and a digit.
C19_GeneratedHasAllClasses ==
    resp.op = "generate_random_password" =>
        LET password == resp.form[1]
        IN  /\ Len(password) = resp.target
            /\ \E i \in 1..Len(password) : password[i] \in LowerChars
            /\ \E i \in 1..Len(password) : password[i] \in UpperChars
            /\ \E i \in 1..Len(password) : password[i] \in DigitChars

\* C20: cleanup_orphaned_images tries to remove exactly the files of the
\* upload folder that have an allowed extension and are named by no article's
\* image_path; it removes those of them whose removal does not fail, also when
\* another removal failed; it never removes a referenced file, nor any other
\* file, changes no article, and returns the number of files it removed.
C20_CleanupRemovesExactlyOrphans ==
    [][ IsRequest("cleanup_orphaned_images") =>
          LET orphans == { f \in files :
                             /\ f[2] \in ALLOWED_EXTENSIONS
                             /\ \A a \in DOMAIN articles : articles[a].image_path # f }
              attempted == resp'.form[1]
              failed == resp'.form[2]
          IN  /\ attempted = orphans
              /\ files' \subseteq files
              /\ files \ files' = orphans \ failed
              /\ \A a \in DOMAIN articles :
                    articles[a].image_path \in files => articles[a].image_path \in files'
              /\ resp'.target = Cardinality(files \ files')
              /\ articles' = articles ]_vars

\* C20 witness: one removal failed, another file was removed all the same,
\* and a referenced file and a file without an allowed extension are still in
\* the folder.
C20_Witness ==
    /\ resp.op = "cleanup_orphaned_images"
    /\ resp.form[2] # {}
    /\ resp.target >= 1
    /\ \E a \in DOMAIN articles : articles[a].image_path \in files
    /\ <<4, "txt">> \in files

\* How often `name` occurs in the sequence of calls.
Count(calls, name) == Cardinality({ i \in 1..Len(calls) : calls[i] = name })

\* C21: whenever log_activity has opened a connection it closes it exactly
\* once, as its last call; a raising execute or commit is printed and not
\* raised; commit is not called after a raising execute; the call raises
\* exactly when close raises; a row is committed exactly when execute and
\* commit both succeed.
C21_LogActivityClosesOnce ==
    (resp.op = "log_activity" /\ resp.db) =>
        LET calls == resp.listing
            execute_ok == resp.form[5]
            commit_ok == resp.form[6]
            close_ok == resp.form[7]
        IN  /\ Count(calls, "close") = 1
            /\ calls[Len(calls)] = "close"
            /\ Count(calls, "execute") = 1
            /\ ~execute_ok => Count(calls, "commit") = 0 /\ Count(calls, "print") = 1
            /\ (execute_ok /\ ~commit_ok) =>
                  Count(calls, "commit") = 1 /\ Count(calls, "print") = 1
            /\ (execute_ok /\ commit_ok) =>
                  Count(calls, "commit") = 1 /\ Count(calls, "print") = 0
            /\ (resp.outcome = "raised") <=> ~close_ok
            /\ (resp.target = 1) <=> (execute_ok /\ commit_ok)

\* C21 witness: execute raised; the failure was printed, commit was skipped,
\* the connection was closed and the call returned.
C21_Witness ==
    /\ resp.op = "log_activity"
    /\ resp.outcome = "returned"
    /\ resp.listing = <<"get_db_connection", "execute", "print", "close">>
    /\ ~resp.form[5]

\* C22 as claimed: every stored article has a non-empty title and a non-empty
\* content.
C22_TitleAndContentNonEmpty ==
    \A a \in DOMAIN articles : articles[a].title # "" /\ articles[a].content # ""

\* The upload carries a file whose name has no extension or an extension
\* outside the allow-list.
BadExtension(upload) ==
    /\ upload.present
    /\ upload.filename # <<"">>
    /\ \/ Len(upload.filename) = 1
       \/ Lower(upload.filename[Len(upload.filename)]) \notin ALLOWED_EXTENSIONS

\* C23: a create_article or edit_article POST that passed its checks and
\* carries an image without an allowed extension succeeds without the image:
\* the upload folder is unchanged; the created article has image_path NULL;
\* the edited article takes the submitted title and content and keeps its
\* image_path.
C23_BadExtensionIgnored ==
    [][ (/\ IsRequest("create_article") \/ IsRequest("edit_article")
         /\ resp'.form # << >>
         /\ BadExtension(resp'.form[4])) =>
          LET a == resp'.target
          IN  /\ files' = files
              /\ a \in DOMAIN articles'
              /\ resp'.op = "create_article" =>
                    /\ resp'.outcome = "created"
                    /\ a \notin DOMAIN articles
                    /\ articles'[a].image_path = NullImage
                    /\ articles'[a].title = resp'.form[2]
                    /\ articles'[a].content = resp'.form[3]
              /\ resp'.op = "edit_article" =>
                    /\ resp'.outcome = "updated"
                    /\ articles'[a].image_path = articles[a].image_path
                    /\ articles'[a].title = resp'.form[1]
                    /\ articles'[a].content = resp'.form[2] ]_vars

\* C23 witness: an article with a stored image was edited with an upload
\* named notes.txt; the image is still referenced and still in the folder.
C23_Witness ==
    /\ resp.op = "edit_article"
    /\ resp.outcome = "updated"
    /\ resp.form[4] = TextUpload
    /\ articles[resp.target].image_path # NullImage
    /\ articles[resp.target].image_path \in files

\* C26: edit_article adds and removes no article and leaves the author_id and
\* created_at of every article as they were; articles other than the edited
\* one do not change at all.
C26_EditKeepsAuthorAndCreation ==
    [][ IsRequest("edit_article") =>
          /\ DOMAIN articles' = DOMAIN articles
          /\ \A a \in DOMAIN articles :
                /\ articles'[a].author_id = articles[a].author_id
                /\ articles'[a].created_at = articles[a].created_at
                /\ a # resp'.target => articles'[a] = articles[a] ]_vars

\* C26 witness: an admin edited, after the clock had moved on, an article of
\* another author; it still belongs to that author.
C26_Witness ==
    /\ resp.op = "edit_article"
    /\ resp.outcome = "updated"
    /\ SessionGet(session[resp.sess], "is_admin")
    /\ articles[resp.target].author_id # session[resp.sess]["user_id"]
    /\ articles[resp.target].updated_at > articles[resp.target].created_at

\* C24 as claimed: the author_id of every stored article is the id of an
\* existing row of the users table.
C24_AuthorExists ==
    \A a \in DOMAIN articles : articles[a].author_id \in DOMAIN users

\* C25 as claimed: whenever a request passes login_required, the users row of
\* the session's user_id exists and is active; whenever it passes
\* admin_required, that row also has is_admin set.
C25_GuardPassedByCurrentUser ==
    [][ (/\ now' = now
         /\ resp'.op \in LoginRoutes \cup AdminRoutes
         /\ resp'.outcome \notin {"unauthenticated", "forbidden"}) =>
          LET sess == session[resp'.sess]
          IN  /\ InSession(sess, "user_id")
              /\ sess["user_id"] \in DOMAIN users
              /\ users[sess["user_id"]].active
              /\ resp'.op \in AdminRoutes => users[sess["user_id"]].is_admin ]_vars

\* C27 as claimed: when create_article or edit_article commits a row with the
\* image it has just saved, that file is in the upload folder, also when
\* cleanup_orphaned_images ran between the save and the commit.
C27_SavedImageSurvivesCleanup ==
    [][ (/\ IsRequest("create_article") \/ IsRequest("edit_article")
         /\ resp'.outcome \in {"created", "updated"}
         /\ resp'.target \in DOMAIN articles') =>
          LET new == articles'[resp'.target].image_path
              old == IF resp'.target \in DOMAIN articles
                     THEN articles[resp'.target].image_path ELSE NullImage
          IN  (new # NullImage /\ new # old) => new \in files' ]_vars

\* C28: a login that directly follows a credential operation and submits the
\* password that operation reported authenticates.  After admin_add_user or a
\* reset in admin_edit_user, the user name and password handed to the notifier
\* log in as that (active) user; after a successful change_password the new
\* password logs in as that user and the previous one, when different, is
\* refused.
C28_ReportedPasswordAuthenticates ==
    [][ (IsRequest("login") /\ resp'.form # << >>) =>
          /\ (/\ resp.op \in {"admin_add_user", "admin_edit_user"}
              /\ mail.result # "none"
              /\ resp.target \in DOMAIN users
              /\ users[resp.target].active
              /\ resp'.form = <<mail.username, mail.password>>) =>
                /\ resp'.outcome = "login_ok"
                /\ resp'.target = resp.target
          /\ (/\ resp.op = "change_password"
              /\ resp.outcome = "password_changed"
              /\ resp.target \in DOMAIN users
              /\ users[resp.target].active) =>
                LET name == users[resp.target].username
                IN  /\ resp'.form = <<name, resp.form[2]>> =>
                          /\ resp'.outcome = "login_ok"
                          /\ resp'.target = resp.target
                    /\ (resp'.form = <<name, resp.form[1]>> /\ resp.form[1] # resp.form[2]) =>
                          resp'.outcome = "invalid_login" ]_vars

\* C28 witness: a login with the password chosen in change_password
\* succeeded.
C28_Witness ==
    /\ resp.op = "login"
    /\ resp.outcome = "login_ok"
    /\ resp.form[2] = TestPassword
    /\ plain[resp.target] = TestPassword

====
